---- MODULE Spec2Model ----
(***************************************************************************)
(* Model of the Scene Composition & Timeline Assembly Engine               *)
(* (video-service/src/services/video_assembly.py, VideoAssemblyEngine).    *)
(*                                                                         *)
(* The external renderer (ffmpeg, started with create_subprocess_exec) is  *)
(* the environment: a launch either raises or starts a process, and a      *)
(* started process ends with any exit status and may or may not have       *)
(* written its output file.  File paths are tuples of strings; the file    *)
(* system is the set of paths that exist.                                  *)
(***************************************************************************)
EXTENDS Integers, Sequences, FiniteSets, TLC

(* ------------------------------ bounds --------------------------------- *)
MaxLines == 2
MaxScenes == 2
MaxQualities == 2
MaxItems == 3

Chars == {"Alice"}
Contents == {"Hi", " "}
\* Times and durations are Python floats, counted here in ticks of
\* 1/TicksPerSecond s: such values are represented, added and multiplied by
\* 1000 without rounding, so integer arithmetic gives the float results.
TicksPerSecond == 2 ^ 10
Durations == {0, 1}
LineDurations == {TicksPerSecond, TicksPerSecond + 1}
None == "None"
NoProc == [stage |-> "none", input |-> << >>, out |-> << >>]
NoClip == [path |-> "none"]
NoReturn == [type |-> "none"]
NoMix == [labels |-> << >>, inputs |-> 0]

MaxWriters == 2
MaxClock == 2
MaxCalls == 3

(* ------------------------------ paths ---------------------------------- *)
NoPath == << >>
BackgroundPath == <<"bg">>
AnimPath(c) == <<"anim", c>>
WavPath(c) == <<"wav", c>>
SceneId == "s1"
Timestamp == "t0"

\* f"scene_{scene.id}_{timestamp}.mp4" under temp_path
SceneFilename(id, ts) == <<"scene", id, ts>>
\* f"dialogue_{input_path.stem}.mp4" next to the input
DialogueFilename(p) == <<"dialogue">> \o p
\* f"audio_{input_path.stem}.mp4" next to the input
AudioFilename(p) == <<"audio">> \o p

VARIABLES
    fs,                   \* paths that exist on disk
    calls,                \* renderer invocations so far: [stage, input, out]
    proc,                 \* the subprocess awaited, or NoProc
    pc,                   \* position of the running operation
    background_path, character_animations, audio_clips, script_lines,
    layers,               \* the list handed to _compose_layers
    scene_output_path,
    dialogue_filters,     \* the overlay operation list
    audio_filters,        \* the mixer's delay operations
    final_scene_path,
    stage_log,            \* stage start/finish events of compose_scene
    result,               \* the VideoClip returned, or NoClip
    scenes, include_transitions,
    scene_list_path,      \* the temporary concat list file
    scene_list,           \* the entries written to it
    concat_inputs,        \* the scene files the renderer is told to join
    final_path,           \* the value create_video_from_scenes returned
    video_path, export_formats, quality_presets,
    export_results,       \* dict: format -> list of exported paths
    fmt_i, quality_i,     \* positions of the two export loops
    attempted,            \* export invocations: [fmt, quality, outcome]
    batch_items,          \* the keys submitted to a batch operation
    task,                 \* per submitted item: position, result
    sem_value,            \* asyncio.Semaphore: free slots
    sem_waiters,          \* asyncio.Semaphore: queued items, oldest first
    batch_results,        \* dict: key -> path, built after gather()
    batch_pc,             \* position of the batch call
    clock,                \* wall clock, in half seconds
    writers,              \* invocations that name an output file
    resolution,           \* compose_scene's resolution argument
    character_positions,  \* the scene's layout: character -> logical position
    filter_parts,         \* the compositor's filter graph
    audio_mix,            \* the mixer's final amix operation
    engines,              \* TTSEngineManager.engines: name -> engine is loaded
    current_engine,       \* TTSEngineManager.current_engine, or None
    tts_log               \* the manager calls made so far, with their returns

vars == << fs, calls, proc, pc,
           background_path, character_animations, audio_clips, script_lines,
           layers, scene_output_path, dialogue_filters, audio_filters,
           final_scene_path, stage_log, result,
           scenes, include_transitions, scene_list_path, scene_list,
           concat_inputs, final_path,
           video_path, export_formats, quality_presets, export_results,
           fmt_i, quality_i, attempted,
           batch_items, task, sem_value, sem_waiters, batch_results, batch_pc,
           clock, writers, resolution, character_positions, filter_parts,
           audio_mix, engines, current_engine, tts_log >>

composeVars == << background_path, character_animations, audio_clips,
                  script_lines, layers, scene_output_path, dialogue_filters,
                  audio_filters, final_scene_path, stage_log, result >>
concatVars == << scenes, include_transitions, scene_list_path, scene_list,
                 concat_inputs, final_path >>
exportVars == << video_path, export_formats, quality_presets, export_results,
                 fmt_i, quality_i, attempted >>
batchVars == << batch_items, task, sem_value, sem_waiters, batch_results,
                batch_pc >>
writerVars == << clock, writers >>
compositorVars == << resolution, character_positions, filter_parts, audio_mix >>
ttsVars == << engines, current_engine, tts_log >>

(* --------------------------- pure helpers ------------------------------ *)
\* Dicts are functions over their key set, iterated in this key order.
RECURSIVE SetToSeq(_)
SetToSeq(S) ==
    IF S = {} THEN << >>
    ELSE LET x == CHOOSE y \in S : TRUE IN <<x>> \o SetToSeq(S \ {x})

RECURSIVE SeqsUpTo(_, _)
SeqsUpTo(S, n) ==
    IF n = 0 THEN { << >> }
    ELSE LET shorter == SeqsUpTo(S, n - 1)
         IN shorter \cup { Append(s, x) : s \in {t \in shorter : Len(t) = n - 1}, x \in S }

Range(s) == { s[i] : i \in DOMAIN s }

DialogueLine == [content : Contents, character_name : Chars \cup {None},
                 estimated_duration : Durations]

\* DialogueLine.is_narration: a line without a character is narration.
is_narration(line) == line.character_name = None

\* str.strip() leaves nothing of a whitespace-only content
Strip(content) == IF content = " " THEN "" ELSE content

\* sum(line.estimated_duration for line in script_lines)
RECURSIVE scene_duration(_)
scene_duration(lines) ==
    IF lines = << >> THEN 0
    ELSE Head(lines).estimated_duration + scene_duration(Tail(lines))

\* Path(p).exists()
Exists(p, disk) == p \in disk

\* self.video_settings
video_settings ==
    ("720p" :> [width |-> 1280, height |-> 720])
    @@ ("1080p" :> [width |-> 1920, height |-> 1080])
    @@ ("1440p" :> [width |-> 2560, height |-> 1440])
    @@ ("2160p" :> [width |-> 3840, height |-> 2160])

\* self.video_settings.get(resolution, self.video_settings["1080p"])
video_config(res) ==
    IF res \in DOMAIN video_settings THEN video_settings[res]
    ELSE video_settings["1080p"]

\* Scene.get_character_position: the position the scene's layout gives the
\* character, None when it gives none
get_character_position(character_name, positions) ==
    IF character_name \in DOMAIN positions THEN positions[character_name]
    ELSE None

\* the position_map of _get_character_screen_position
position_map ==
    ("left" :> << 200, 150 >>)
    @@ ("center" :> << 760, 150 >>)
    @@ ("right" :> << 1320, 150 >>)

\* position_map.get(position, position_map[CharacterPosition.CENTER])
get_character_screen_position(character_name, positions) ==
    LET position == get_character_position(character_name, positions)
    IN IF position \in DOMAIN position_map THEN position_map[position]
       ELSE position_map["center"]

\* variant: a layer for every non-empty path, on disk or not
RECURSIVE CharacterLayersUnchecked(_, _, _, _)
CharacterLayersUnchecked(keys, anims, disk, duration) ==
    IF keys = << >> THEN << >>
    ELSE LET animation_path == anims[Head(keys)]
             rest == CharacterLayersUnchecked(Tail(keys), anims, disk, duration)
         IN IF animation_path # NoPath
            THEN << [type |-> "character", content_path |-> animation_path,
                     position |-> get_character_screen_position(
                                      Head(keys), character_positions),
                     z_index |-> 1, duration |-> duration] >> \o rest
            ELSE rest

\* the character-layer loop of compose_scene
RECURSIVE CharacterLayers(_, _, _, _)
CharacterLayers(keys, anims, disk, duration) ==
    IF keys = << >> THEN << >>
    ELSE LET animation_path == anims[Head(keys)]
             rest == CharacterLayers(Tail(keys), anims, disk, duration)
         IN IF animation_path # NoPath /\ Exists(animation_path, disk)
            THEN << [type |-> "character", content_path |-> animation_path,
                     position |-> get_character_screen_position(
                                      Head(keys), character_positions),
                     z_index |-> 1, duration |-> duration] >> \o rest
            ELSE rest

\* variant: the background above the characters
BackgroundLayerOnTop(bg, duration) ==
    [type |-> "background", content_path |-> bg, position |-> << 0, 0 >>,
     z_index |-> 2, duration |-> duration]

\* CompositionLayer(type="background", ..., z_index=0, duration=scene_duration)
BackgroundLayer(bg, duration) ==
    [type |-> "background", content_path |-> bg, position |-> << 0, 0 >>,
     z_index |-> 0, duration |-> duration]

BuildLayers(bg, anims, disk, duration) ==
    << BackgroundLayer(bg, duration) >>
    \o CharacterLayers(SetToSeq(DOMAIN anims), anims, disk, duration)

\* sorted(layers, key=lambda x: x.z_index): stable, ascending
RECURSIVE InsertByZ(_, _)
InsertByZ(layer, sorted) ==
    IF sorted = << >> THEN << layer >>
    ELSE IF sorted[Len(sorted)].z_index <= layer.z_index
         THEN Append(sorted, layer)
         ELSE Append(InsertByZ(layer, SubSeq(sorted, 1, Len(sorted) - 1)),
                     sorted[Len(sorted)])

RECURSIVE SortedLayers(_)
SortedLayers(ls) ==
    IF ls = << >> THEN << >>
    ELSE InsertByZ(ls[Len(ls)], SortedLayers(SubSeq(ls, 1, Len(ls) - 1)))

\* stream labels of the filter graph: [i:v], [bg i], [comp i]
InputLabel(i) == << "in", i >>
BgLabel(i) == << "bg", i >>
CompLabel(i) == << "comp", i >>
NoLabel == << "none", 0 >>

\* the filter loop of _compose_layers from 0-based index i: the background
\* is scaled to the frame, every character (scale 1.0) is overlaid on [bg0]
RECURSIVE FilterLoop(_, _, _)
FilterLoop(sorted_layers, i, config) ==
    IF i >= Len(sorted_layers) THEN << >>
    ELSE LET layer == sorted_layers[i + 1]
             rest == FilterLoop(sorted_layers, i + 1, config)
         IN IF layer.type = "background"
            THEN << [op |-> "scale", base |-> NoLabel, top |-> InputLabel(i),
                     x |-> config.width, y |-> config.height,
                     out |-> BgLabel(i)] >> \o rest
            ELSE IF layer.type = "character"
            THEN << [op |-> "overlay", base |-> BgLabel(0), top |-> InputLabel(i),
                     x |-> layer.position[1], y |-> layer.position[2],
                     out |-> CompLabel(i)] >> \o rest
            ELSE rest

FilterParts(ls, config) == FilterLoop(SortedLayers(ls), 0, config)

\* the filter loop of _add_dialogue_overlay, from line k at current_time
RECURSIVE OverlayLoop(_, _, _)
OverlayLoop(lines, k, current_time) ==
    IF k > Len(lines) THEN << >>
    ELSE LET line == lines[k] IN
         IF Strip(line.content) = ""
         THEN OverlayLoop(lines, k + 1, current_time)
         ELSE LET start_time == current_time
                  end_time == current_time + line.estimated_duration
                  name_filter == [op |-> "name", text |-> line.character_name,
                                  start |-> start_time, end |-> end_time]
                  text_filter == [op |-> "text", text |-> line.content,
                                  start |-> start_time, end |-> end_time]
              IN (IF line.character_name # None /\ ~is_narration(line)
                  THEN <<name_filter, text_filter>>
                  ELSE <<text_filter>>)
                 \o OverlayLoop(lines, k + 1, end_time)

box_filter == [op |-> "drawbox", text |-> "", start |-> 0, end |-> 0]

DialogueFilters(lines) == <<box_filter>> \o OverlayLoop(lines, 1, 0)

\* variant: the delay rounded up to the next whole millisecond
MillisecondsCeil(current_time) ==
    (current_time * 1000 + TicksPerSecond - 1) \div TicksPerSecond

\* int(current_time*1000): the whole milliseconds, the fraction dropped
Milliseconds(current_time) == (current_time * 1000) \div TicksPerSecond

\* the timeline loop of _add_scene_audio; i is the 0-based line index
RECURSIVE AudioLoop(_, _, _, _, _)
AudioLoop(lines, k, current_time, clips, disk) ==
    IF k > Len(lines) THEN << >>
    ELSE LET line == lines[k]
             i == k - 1
             rest == AudioLoop(lines, k + 1,
                               current_time + line.estimated_duration,
                               clips, disk)
         IN IF /\ line.character_name # None
               /\ line.character_name \in DOMAIN clips
               /\ Exists(clips[line.character_name], disk)
            THEN << [input |-> i + 1, delay |-> Milliseconds(current_time),
                     label |-> i, file |-> clips[line.character_name]] >>
                 \o rest
            ELSE rest

AudioFilters(lines, clips, disk) == AudioLoop(lines, 1, 0, clips, disk)

\* f"[0:a]{''.join(f'[a{i}]' for i in range(len(audio_filters)))}
\*   amix=inputs={len(audio_filters)+1}[audio]", appended when there is a track
MixFilter(filters) ==
    IF filters = << >> THEN NoMix
    ELSE [labels |-> [k \in 1 .. Len(filters) |-> k - 1],
          inputs |-> Len(filters) + 1]

VideoClip(path, duration) ==
    [path |-> path, duration |-> duration, width |-> 1920, height |-> 1080]

(* ------------------------- compose_scene ------------------------------- *)
ComposeIdle ==
    /\ layers = << >> /\ scene_output_path = NoPath
    /\ dialogue_filters = << >> /\ audio_filters = << >>
    /\ final_scene_path = NoPath /\ stage_log = << >> /\ result = NoClip

ConcatIdle ==
    /\ scenes = << >> /\ include_transitions = FALSE
    /\ scene_list_path = NoPath /\ scene_list = << >>
    /\ concat_inputs = << >> /\ final_path = NoReturn

ExportIdle ==
    /\ video_path = NoPath /\ export_formats = << >> /\ quality_presets = << >>
    /\ export_results = << >> /\ fmt_i = 0 /\ quality_i = 0
    /\ attempted = << >>

BatchIdle ==
    /\ batch_items = << >> /\ task = << >> /\ sem_value = 0
    /\ sem_waiters = << >> /\ batch_results = << >> /\ batch_pc = "idle"

WritersIdle == clock = 0 /\ writers = << >>

\* resolution: str = "1080p"
DefaultResolution == "1080p"

CompositorIdle ==
    /\ resolution = DefaultResolution /\ character_positions = << >>
    /\ filter_parts = << >> /\ audio_mix = NoMix

TTSIdle == engines = << >> /\ current_engine = None /\ tts_log = << >>

AnimationChoices == { NoPath } \cup { AnimPath(c) : c \in Chars }

Init ==
    /\ calls = << >> /\ proc = NoProc /\ pc = "compose_scene"
    /\ background_path = BackgroundPath
    /\ \E keys \in SUBSET Chars :
         character_animations \in [keys -> AnimationChoices]
    /\ \E keys \in SUBSET Chars :
         audio_clips = [c \in keys |-> WavPath(c)]
    /\ script_lines \in SeqsUpTo(DialogueLine, MaxLines)
    /\ fs \in SUBSET ({BackgroundPath} \cup { AnimPath(c) : c \in Chars }
                       \cup { WavPath(c) : c \in Chars })
    /\ resolution = DefaultResolution
    /\ character_positions = [c \in Chars |-> "center"]
    /\ filter_parts = << >> /\ audio_mix = NoMix
    /\ ComposeIdle /\ ConcatIdle /\ ExportIdle /\ BatchIdle /\ WritersIdle /\ TTSIdle

\* stage_log entries: a stage's entry, and its return with what its renderer
\* invocation did (invoked: create_subprocess_exec was called; launched: it
\* did not raise; returncode and out_exists as seen after communicate())
\* the print(...) of a stage: only the `except Exception` branch has one,
\* taken when create_subprocess_exec raised
Printed(invoked, launched) == invoked /\ ~launched

StartEv(stage, input_exists) ==
    [stage |-> stage, ev |-> "start", input_exists |-> input_exists,
     invoked |-> FALSE, launched |-> FALSE, returncode |-> 0, out_exists |-> FALSE,
     printed |-> FALSE]
FinishEv(stage, invoked, launched, returncode, out_exists) ==
    [stage |-> stage, ev |-> "finish", input_exists |-> FALSE,
     invoked |-> invoked, launched |-> launched, returncode |-> returncode,
     out_exists |-> out_exists, printed |-> Printed(invoked, launched)]
Call(stage, input, out) == [stage |-> stage, input |-> input, out |-> out]

\* compose_scene up to the launch of the compositor's renderer
ComposeSceneLaunch(launched) ==
    /\ pc = "compose_scene"
    /\ LET duration == scene_duration(script_lines)
           out == SceneFilename(SceneId, Timestamp)
       IN /\ layers' = BuildLayers(background_path, character_animations, fs, duration)
          /\ filter_parts' = FilterParts(layers', video_config(resolution))
          /\ scene_output_path' = out
          /\ calls' = Append(calls, Call("compose", background_path, out))
          /\ IF launched
             THEN /\ proc' = Call("compose", background_path, out)
                  /\ pc' = "compose_layers"
                  /\ stage_log' = Append(stage_log,
                        StartEv("compose", Exists(background_path, fs)))
             ELSE \* create_subprocess_exec raised: _compose_layers returns
                  \* False and compose_scene raises
                  /\ proc' = NoProc
                  /\ pc' = "raised"
                  /\ stage_log' = stage_log \o
                        << StartEv("compose", Exists(background_path, fs)),
                           FinishEv("compose", TRUE, FALSE, 0, Exists(out, fs)) >>
    /\ UNCHANGED << fs, background_path, character_animations, audio_clips,
                    script_lines, dialogue_filters, audio_filters,
                    final_scene_path, result >>
    /\ UNCHANGED << concatVars, exportVars >>
    /\ UNCHANGED << batchVars, writerVars, resolution, character_positions,
                    audio_mix, ttsVars >>

ComposeScene == \E launched \in BOOLEAN : ComposeSceneLaunch(launched)

\* compose_scene's layer list and filter graph for any cast, layout and
\* resolution
Cast == {"Alice", "Bob"}
LogicalPositions == {"left", "center", "right", None}
Resolutions == DOMAIN video_settings \cup {"480p"}
NarrationLine == [content : {"Hi"}, character_name : {None},
                  estimated_duration : LineDurations]

InitCompositor ==
    /\ calls = << >> /\ proc = NoProc /\ pc = "compose_scene"
    /\ background_path = BackgroundPath
    /\ \E keys \in SUBSET Cast :
         character_animations \in
             [keys -> { NoPath } \cup { AnimPath(c) : c \in Cast }]
    /\ audio_clips = << >>
    /\ script_lines \in SeqsUpTo(NarrationLine, MaxLines)
    /\ fs \in SUBSET { AnimPath(c) : c \in Cast }
    /\ resolution \in Resolutions
    /\ character_positions \in [Cast -> LogicalPositions]
    /\ filter_parts = << >> /\ audio_mix = NoMix
    /\ ComposeIdle /\ ConcatIdle /\ ExportIdle /\ BatchIdle /\ WritersIdle /\ TTSIdle

CompositorSpec == InitCompositor /\ [][ComposeScene]_vars

\* what a finished renderer process leaves on disk
Written(disk, out, wrote) == IF wrote THEN disk \cup {out} ELSE disk

\* variants: the gate without the file test, and without the status test
ComposeGateSuccessOnly(success, out, disk) == success
ComposeGateExistsOnly(success, out, disk) == Exists(out, disk)

\* the gate of compose_scene after _compose_layers returned
ComposeGate(success, out, disk) == success /\ Exists(out, disk)

\* the compositor's process ends; compose_scene raises or goes on
ComposeLayersExit ==
    /\ pc = "compose_layers"
    /\ \E returncode \in {0, 1}, wrote \in BOOLEAN :
         /\ fs' = Written(fs, proc.out, wrote)
         /\ pc' = IF ComposeGate(returncode = 0, scene_output_path, fs')
                  THEN "add_dialogue_overlay" ELSE "raised"
         /\ stage_log' = Append(stage_log,
               FinishEv("compose", TRUE, TRUE, returncode, Exists(proc.out, fs')))
    /\ proc' = NoProc
    /\ UNCHANGED << calls, background_path, character_animations, audio_clips,
                    script_lines, layers, scene_output_path, dialogue_filters,
                    audio_filters, final_scene_path, result >>
    /\ UNCHANGED << concatVars, exportVars >>
    /\ UNCHANGED << batchVars, writerVars, compositorVars, ttsVars >>

\* _add_dialogue_overlay up to the launch of its renderer
AddDialogueOverlayLaunch(launched) ==
    /\ pc = "add_dialogue_overlay"
    /\ LET input == scene_output_path
           out == DialogueFilename(input)
       IN /\ dialogue_filters' = DialogueFilters(script_lines)
          /\ calls' = Append(calls, Call("overlay", input, out))
          /\ IF launched
             THEN /\ proc' = Call("overlay", input, out)
                  /\ pc' = "overlay_wait"
                  /\ final_scene_path' = final_scene_path
                  /\ stage_log' = Append(stage_log,
                        StartEv("overlay", Exists(input, fs)))
             ELSE \* launch raised: the except branch, return video_path
                  /\ proc' = NoProc
                  /\ pc' = "add_scene_audio"
                  /\ final_scene_path' = input
                  /\ stage_log' = stage_log \o
                        << StartEv("overlay", Exists(input, fs)),
                           FinishEv("overlay", TRUE, FALSE, 0, Exists(out, fs)) >>
    /\ UNCHANGED << fs, background_path, character_animations, audio_clips,
                    script_lines, layers, scene_output_path, audio_filters,
                    result >>
    /\ UNCHANGED << concatVars, exportVars >>
    /\ UNCHANGED << batchVars, writerVars, compositorVars, ttsVars >>

AddDialogueOverlay == \E launched \in BOOLEAN : AddDialogueOverlayLaunch(launched)

\* variants: the output is returned whatever the exit status, and whether
\* or not the file is there
BestEffortResultIgnoresStatus(returncode, out, input, disk) ==
    IF Exists(out, disk) THEN out ELSE input
BestEffortResultIgnoresOutput(returncode, out, input, disk) ==
    IF returncode = 0 THEN out ELSE input

\* the return value of a best-effort stage once its process has ended
BestEffortResult(returncode, out, input, disk) ==
    IF returncode = 0 /\ Exists(out, disk) THEN out ELSE input

\* the overlay's process ends
AddDialogueOverlayExit ==
    /\ pc = "overlay_wait"
    /\ \E returncode \in {0, 1}, wrote \in BOOLEAN :
         /\ fs' = Written(fs, proc.out, wrote)
         /\ final_scene_path' =
               BestEffortResult(returncode, proc.out, proc.input, fs')
         /\ stage_log' = Append(stage_log,
               FinishEv("overlay", TRUE, TRUE, returncode, Exists(proc.out, fs')))
    /\ proc' = NoProc
    /\ pc' = "add_scene_audio"
    /\ UNCHANGED << calls, background_path, character_animations, audio_clips,
                    script_lines, layers, scene_output_path, dialogue_filters,
                    audio_filters, result >>
    /\ UNCHANGED << concatVars, exportVars >>
    /\ UNCHANGED << batchVars, writerVars, compositorVars, ttsVars >>

\* compose_scene returns VideoClip(path=final_scene_path, ...)
Return(path) ==
    /\ result' = VideoClip(path, scene_duration(script_lines))
    /\ final_scene_path' = path
    /\ pc' = "returned"

\* `if audio_clips:` is false: the audio stage is skipped
SkipSceneAudio ==
    /\ pc = "add_scene_audio"
    /\ audio_clips = << >>
    /\ Return(final_scene_path)
    /\ UNCHANGED << fs, calls, proc, background_path, character_animations,
                    audio_clips, script_lines, layers, scene_output_path,
                    dialogue_filters, audio_filters, stage_log >>
    /\ UNCHANGED << concatVars, exportVars >>
    /\ UNCHANGED << batchVars, writerVars, compositorVars, ttsVars >>

\* variant: the mixer runs its renderer even without a track
HasAudioAlways(filters) == TRUE

\* `if audio_inputs and audio_filters:`
HasAudio(filters) == filters # << >>

\* _add_scene_audio up to the launch of its renderer, or its return when
\* there is nothing to mix
AddSceneAudioLaunch(launched) ==
    /\ pc = "add_scene_audio"
    /\ audio_clips # << >>
    /\ LET input == final_scene_path
           out == AudioFilename(input)
           filters == AudioFilters(script_lines, audio_clips, fs)
       IN /\ audio_filters' = filters
          /\ audio_mix' = MixFilter(filters)
          /\ IF ~HasAudio(filters)
             THEN /\ launched
                  /\ Return(input)
                  /\ UNCHANGED << calls, proc >>
                  /\ stage_log' = stage_log \o
                        << StartEv("audio", Exists(input, fs)),
                           FinishEv("audio", FALSE, FALSE, 0, Exists(out, fs)) >>
             ELSE /\ calls' = Append(calls, Call("audio", input, out))
                  /\ IF launched
                     THEN /\ proc' = Call("audio", input, out)
                          /\ pc' = "audio_wait"
                          /\ UNCHANGED << result, final_scene_path >>
                          /\ stage_log' = Append(stage_log,
                                StartEv("audio", Exists(input, fs)))
                     ELSE /\ proc' = NoProc
                          /\ Return(input)
                          /\ stage_log' = stage_log \o
                                << StartEv("audio", Exists(input, fs)),
                                   FinishEv("audio", TRUE, FALSE, 0, Exists(out, fs)) >>
    /\ UNCHANGED << fs, background_path, character_animations, audio_clips,
                    script_lines, layers, scene_output_path, dialogue_filters >>
    /\ UNCHANGED << concatVars, exportVars >>
    /\ UNCHANGED << batchVars, writerVars, resolution, character_positions,
                    filter_parts, ttsVars >>

AddSceneAudio == \E launched \in BOOLEAN : AddSceneAudioLaunch(launched)

\* the mixer's process ends; compose_scene returns the VideoClip
AddSceneAudioExit ==
    /\ pc = "audio_wait"
    /\ \E returncode \in {0, 1}, wrote \in BOOLEAN :
         /\ fs' = Written(fs, proc.out, wrote)
         /\ Return(BestEffortResult(returncode, proc.out, proc.input, fs'))
         /\ stage_log' = Append(stage_log,
               FinishEv("audio", TRUE, TRUE, returncode, Exists(proc.out, fs')))
    /\ proc' = NoProc
    /\ UNCHANGED << calls, background_path, character_animations, audio_clips,
                    script_lines, layers, scene_output_path, dialogue_filters,
                    audio_filters >>
    /\ UNCHANGED << concatVars, exportVars >>
    /\ UNCHANGED << batchVars, writerVars, compositorVars, ttsVars >>

Next ==
    \/ ComposeScene
    \/ ComposeLayersExit
    \/ AddDialogueOverlay
    \/ AddDialogueOverlayExit
    \/ SkipSceneAudio
    \/ AddSceneAudio
    \/ AddSceneAudioExit

Spec == Init /\ [][Next]_vars

(* --------------------- create_video_from_scenes ------------------------ *)
ScenePaths == { <<"scene", "s1", "t0">>, <<"scene", "s2", "t0">> }
SceneClips == { VideoClip(p, d) : p \in ScenePaths, d \in {1, 2} }
\* self.output_path / output_filename
FinalOutputPath == <<"final">>
\* tempfile.NamedTemporaryFile(suffix='.txt', delete=False).name
TempListPath == <<"tmp", "list">>

\* a Python str return value (the function is declared `-> str`)
Str(p) == [type |-> "str", value |-> p]

InitConcat ==
    /\ calls = << >> /\ proc = NoProc /\ pc = "create_video_from_scenes"
    /\ background_path = NoPath /\ character_animations = << >>
    /\ audio_clips = << >> /\ script_lines = << >>
    /\ ComposeIdle /\ ExportIdle /\ BatchIdle /\ WritersIdle /\ CompositorIdle /\ TTSIdle
    /\ scenes \in SeqsUpTo(SceneClips, MaxScenes)
    /\ include_transitions \in BOOLEAN
    /\ scene_list_path = NoPath /\ scene_list = << >>
    /\ concat_inputs = << >> /\ final_path = NoReturn
    /\ \E stale \in SUBSET {FinalOutputPath} : fs = ScenePaths \cup stale

\* variant: the first scene is left out of the list
ScenePathsOfTail(clips) == [i \in 1 .. Len(clips) - 1 |-> clips[i + 1].path]

\* one entry per scene, in order (the file list, and the -i inputs)
ScenePathsOf(clips) == [i \in DOMAIN clips |-> clips[i].path]

\* variant: the list file is left behind
unlinkSkipped(path, disk) == disk

\* os.unlink(scene_list_path) in the finally block
unlink(path, disk) == disk \ {path}

\* `if not scenes: raise ValueError`
CreateVideoNoScenes ==
    /\ pc = "create_video_from_scenes"
    /\ scenes = << >>
    /\ pc' = "concat_raised"
    /\ UNCHANGED << fs, calls, proc, composeVars, concatVars, exportVars >>
    /\ UNCHANGED << batchVars, writerVars, compositorVars, ttsVars >>

\* create_video_from_scenes: the list file is written, then
\* _concatenate_scenes builds its command (from the file list, or from the
\* scenes under include_transitions) and launches the renderer; a launch
\* exception is re-raised and the finally block unlinks the list file
CreateVideoLaunch(launched) ==
    /\ pc = "create_video_from_scenes"
    /\ scenes # << >>
    /\ scene_list_path' = TempListPath
    /\ scene_list' = ScenePathsOf(scenes)
    /\ concat_inputs' = IF include_transitions THEN ScenePathsOf(scenes)
                        ELSE scene_list'
    /\ calls' = Append(calls, Call("concat", IF include_transitions THEN NoPath
                                             ELSE TempListPath, FinalOutputPath))
    /\ IF launched
       THEN /\ proc' = Call("concat", NoPath, FinalOutputPath)
            /\ pc' = "concatenate_scenes"
            /\ fs' = fs \cup {TempListPath}
            /\ stage_log' = Append(stage_log, StartEv("concat", TRUE))
       ELSE /\ proc' = NoProc
            /\ pc' = "concat_raised"
            /\ fs' = unlink(TempListPath, fs \cup {TempListPath})
            /\ stage_log' = stage_log \o
                  << StartEv("concat", TRUE),
                     FinishEv("concat", TRUE, FALSE, 0, Exists(FinalOutputPath, fs)) >>
    /\ UNCHANGED << background_path, character_animations, audio_clips,
                    script_lines, layers, scene_output_path, dialogue_filters,
                    audio_filters, final_scene_path, result >>
    /\ UNCHANGED << scenes, include_transitions, final_path, exportVars >>
    /\ UNCHANGED << batchVars, writerVars, compositorVars, ttsVars >>

CreateVideoFromScenes == \E launched \in BOOLEAN : CreateVideoLaunch(launched)

\* variant: the exit status alone decides
ConcatSucceededStatusOnly(returncode, out, disk) == returncode = 0

\* `process.returncode == 0 and Path(output_path).exists()`
ConcatSucceeded(returncode, out, disk) == returncode = 0 /\ Exists(out, disk)

\* the renderer ends: _concatenate_scenes returns output_path or raises, and
\* the finally block of create_video_from_scenes unlinks the list file
ConcatenateScenesExit ==
    /\ pc = "concatenate_scenes"
    /\ \E returncode \in {0, 1}, wrote \in BOOLEAN :
         LET disk == Written(fs, proc.out, wrote) IN
         /\ fs' = unlink(scene_list_path, disk)
         /\ stage_log' = Append(stage_log,
               FinishEv("concat", TRUE, TRUE, returncode, Exists(proc.out, disk)))
         /\ IF ConcatSucceeded(returncode, proc.out, disk)
            THEN pc' = "concat_returned" /\ final_path' = Str(proc.out)
            ELSE pc' = "concat_raised" /\ final_path' = final_path
    /\ proc' = NoProc
    /\ UNCHANGED << calls, background_path, character_animations, audio_clips,
                    script_lines, layers, scene_output_path, dialogue_filters,
                    audio_filters, final_scene_path, result >>
    /\ UNCHANGED << scenes, include_transitions, scene_list_path, scene_list,
                    concat_inputs, exportVars >>
    /\ UNCHANGED << batchVars, writerVars, compositorVars, ttsVars >>

NextConcat ==
    \/ CreateVideoNoScenes
    \/ CreateVideoFromScenes
    \/ ConcatenateScenesExit

ConcatSpec == InitConcat /\ [][NextConcat]_vars

(* ---------------------------- export_video ----------------------------- *)
Formats == {"mp4", "webm"}
Qualities == {"high", "medium", "low", "ultra"}
InputVideo == <<"final">>

\* the keys of quality_settings
KnownQualities == {"high", "medium", "low"}

\* variant: the quality is not part of the file name
ExportPathWithoutQuality(input, quality, fmt) == <<"export">> \o input \o <<fmt>>

\* input_path.parent / f"{input_path.stem}_{quality}.{fmt}"
ExportPath(input, quality, fmt) == <<"export">> \o input \o <<quality, fmt>>

NoDuplicates(seq) == \A i, j \in DOMAIN seq : seq[i] = seq[j] => i = j

InitExport ==
    /\ calls = << >> /\ proc = NoProc /\ pc = "export_video"
    /\ background_path = NoPath /\ character_animations = << >>
    /\ audio_clips = << >> /\ script_lines = << >>
    /\ ComposeIdle /\ ConcatIdle /\ BatchIdle /\ WritersIdle /\ CompositorIdle /\ TTSIdle
    /\ video_path = InputVideo
    /\ export_formats \in { f \in SeqsUpTo(Formats, Cardinality(Formats)) :
                              NoDuplicates(f) }
    /\ quality_presets \in { q \in SeqsUpTo(Qualities, MaxQualities) :
                               NoDuplicates(q) }
    /\ export_results = << >> /\ fmt_i = 0 /\ quality_i = 0
    /\ attempted = << >>
    /\ fs \in SUBSET {InputVideo}

\* `if not input_path.exists(): raise FileNotFoundError`
ExportVideoMissingInput ==
    /\ pc = "export_video"
    /\ ~Exists(video_path, fs)
    /\ pc' = "export_raised"
    /\ UNCHANGED << fs, calls, proc, composeVars, concatVars, exportVars >>
    /\ UNCHANGED << batchVars, writerVars, compositorVars, ttsVars >>

\* export_results = {} and the outer loop is entered
ExportVideoEnter ==
    /\ pc = "export_video"
    /\ Exists(video_path, fs)
    /\ export_results' = << >>
    /\ fmt_i' = 1 /\ quality_i' = 0
    /\ pc' = "export_format"
    /\ UNCHANGED << fs, calls, proc, composeVars, concatVars, video_path,
                    export_formats, quality_presets, attempted >>
    /\ UNCHANGED << batchVars, writerVars, compositorVars, ttsVars >>

\* `for fmt in export_formats: export_results[fmt] = []`
ExportFormat ==
    /\ pc = "export_format"
    /\ fmt_i <= Len(export_formats)
    /\ LET fmt == export_formats[fmt_i] IN
         export_results' = [f \in DOMAIN export_results \cup {fmt} |->
                               IF f = fmt THEN << >> ELSE export_results[f]]
    /\ quality_i' = 1
    /\ pc' = "export_quality"
    /\ UNCHANGED << fs, calls, proc, composeVars, concatVars, video_path,
                    export_formats, quality_presets, fmt_i, attempted >>
    /\ UNCHANGED << batchVars, writerVars, compositorVars, ttsVars >>

\* the outer loop is exhausted: `return export_results`
ExportReturn ==
    /\ pc = "export_format"
    /\ fmt_i > Len(export_formats)
    /\ pc' = "export_returned"
    /\ UNCHANGED << fs, calls, proc, composeVars, concatVars, exportVars >>
    /\ UNCHANGED << batchVars, writerVars, compositorVars, ttsVars >>

\* the inner loop is exhausted: on to the next format
ExportFormatDone ==
    /\ pc = "export_quality"
    /\ quality_i > Len(quality_presets)
    /\ fmt_i' = fmt_i + 1
    /\ pc' = "export_format"
    /\ UNCHANGED << fs, calls, proc, composeVars, concatVars, video_path,
                    export_formats, quality_presets, export_results,
                    quality_i, attempted >>
    /\ UNCHANGED << batchVars, writerVars, compositorVars, ttsVars >>

\* `if quality not in quality_settings: continue`
ExportSkipQuality ==
    /\ pc = "export_quality"
    /\ quality_i <= Len(quality_presets)
    /\ quality_presets[quality_i] \notin KnownQualities
    /\ quality_i' = quality_i + 1
    /\ UNCHANGED << fs, calls, proc, pc, composeVars, concatVars, video_path,
                    export_formats, quality_presets, export_results, fmt_i,
                    attempted >>
    /\ UNCHANGED << batchVars, writerVars, compositorVars, ttsVars >>

\* variant: the slow profile for low and the fast one for high
quality_settingsReversed ==
    [high   |-> [crf |-> 28, preset |-> "fast"],
     medium |-> [crf |-> 23, preset |-> "medium"],
     low    |-> [crf |-> 18, preset |-> "slow"]]

\* the quality_settings dict of export_video
quality_settings ==
    [high   |-> [crf |-> 18, preset |-> "slow"],
     medium |-> [crf |-> 23, preset |-> "medium"],
     low    |-> [crf |-> 28, preset |-> "fast"]]

\* one export command: "-preset", settings["preset"], "-crf", settings["crf"]
Attempt(fmt, quality, launched, returncode, out_exists) ==
    LET settings == quality_settings[quality] IN
    [fmt |-> fmt, quality |-> quality,
     preset |-> settings.preset, crf |-> settings.crf,
     launched |-> launched,
     returncode |-> returncode, out_exists |-> out_exists]

\* variant: an export error ends the inner loop
NextAfterExportErrorAbort(i, n) == n + 1

\* the try/except sits inside the inner loop: after an error the loop goes
\* on with the next quality
NextAfterExportError(i, n) == i + 1

\* the export command for one (format, quality) pair is launched; a launch
\* exception is printed and the loop goes on
ExportLaunch(launched) ==
    /\ pc = "export_quality"
    /\ quality_i <= Len(quality_presets)
    /\ quality_presets[quality_i] \in KnownQualities
    /\ LET fmt == export_formats[fmt_i]
           quality == quality_presets[quality_i]
           export_path == ExportPath(video_path, quality, fmt)
       IN /\ calls' = Append(calls, Call("export", video_path, export_path))
          /\ attempted' = Append(attempted,
                Attempt(fmt, quality, launched, 0, Exists(export_path, fs)))
          /\ IF launched
             THEN /\ proc' = Call("export", video_path, export_path)
                  /\ pc' = "export_wait"
                  /\ quality_i' = quality_i
             ELSE /\ proc' = NoProc
                  /\ pc' = "export_quality"
                  /\ quality_i' = NextAfterExportError(quality_i,
                                                       Len(quality_presets))
    /\ UNCHANGED << fs, composeVars, concatVars, video_path, export_formats,
                    quality_presets, export_results, fmt_i >>
    /\ UNCHANGED << batchVars, writerVars, compositorVars, ttsVars >>

ExportVideo == \E launched \in BOOLEAN : ExportLaunch(launched)

\* variant: the exit status alone decides
ExportSucceededStatusOnly(returncode, out, disk) == returncode = 0

\* `process.returncode == 0 and export_path.exists()`
ExportSucceeded(returncode, out, disk) == returncode = 0 /\ Exists(out, disk)

\* the export process ends; its path is appended on success
ExportExit ==
    /\ pc = "export_wait"
    /\ \E returncode \in {0, 1}, wrote \in BOOLEAN :
         LET fmt == export_formats[fmt_i]
             last == attempted[Len(attempted)]
         IN /\ fs' = Written(fs, proc.out, wrote)
            /\ attempted' = [attempted EXCEPT ![Len(attempted)] =
                  Attempt(last.fmt, last.quality, TRUE, returncode,
                          Exists(proc.out, fs'))]
            /\ export_results' =
                  IF ExportSucceeded(returncode, proc.out, fs')
                  THEN [export_results EXCEPT ![fmt] = Append(@, proc.out)]
                  ELSE export_results
    /\ quality_i' = quality_i + 1
    /\ proc' = NoProc
    /\ pc' = "export_quality"
    /\ UNCHANGED << calls, composeVars, concatVars, video_path,
                    export_formats, quality_presets, fmt_i >>
    /\ UNCHANGED << batchVars, writerVars, compositorVars, ttsVars >>

NextExport ==
    \/ ExportVideoMissingInput
    \/ ExportVideoEnter
    \/ ExportFormat
    \/ ExportReturn
    \/ ExportFormatDone
    \/ ExportSkipQuality
    \/ ExportVideo
    \/ ExportExit

ExportSpec == InitExport /\ [][NextExport]_vars

(* -------- batch_generate_backgrounds / batch_animate_dialogue ---------- *)
\* asyncio.Semaphore(2); max_concurrent: int = 2
SemaphoreSize == 2
BatchKeys == {"k1", "k2"}

\* the path a generation returns for its key
GeneratedPath(key) == <<"gen", key>>

NewTask == [pc |-> "created", waited |-> FALSE, ok |-> FALSE, path |-> NoPath]

otherThanBatch ==
    << fs, calls, proc, pc, composeVars, concatVars, exportVars, writerVars,
       compositorVars, ttsVars >>

InitBatch ==
    /\ calls = << >> /\ proc = NoProc /\ pc = "batch" /\ fs = {}
    /\ background_path = NoPath /\ character_animations = << >>
    /\ audio_clips = << >> /\ script_lines = << >>
    /\ ComposeIdle /\ ConcatIdle /\ ExportIdle /\ WritersIdle /\ CompositorIdle /\ TTSIdle
    /\ batch_items \in SeqsUpTo(BatchKeys, MaxItems)
    /\ task = [i \in DOMAIN batch_items |-> NewTask]
    /\ sem_value = SemaphoreSize
    /\ sem_waiters = << >>
    /\ batch_results = << >>
    /\ batch_pc = "gather"

\* items holding a slot: inside `async with semaphore`
Holding == { i \in DOMAIN task : task[i].pc \in {"admitted", "generating"} }

\* variant: a slot is taken whether or not one is free
CanAcquireAlways(value, waiting) == TRUE

\* Semaphore.acquire does not wait: a slot is free and nobody is queued
CanAcquire(value, waiting) == value > 0 /\ waiting = << >>

\* `async with semaphore:` is entered by item i
TaskEnter(i) ==
    /\ batch_pc = "gather"
    /\ task[i].pc = "created"
    /\ IF CanAcquire(sem_value, sem_waiters)
       THEN /\ sem_value' = sem_value - 1
            /\ sem_waiters' = sem_waiters
            /\ task' = [task EXCEPT ![i].pc = "admitted"]
       ELSE /\ sem_value' = sem_value
            /\ sem_waiters' = Append(sem_waiters, i)
            /\ task' = [task EXCEPT ![i].pc = "waiting", ![i].waited = TRUE]
    /\ UNCHANGED << batch_items, batch_results, batch_pc, otherThanBatch >>

\* variant: the slot is given back only when the item succeeded
ReleasesSlotOnSuccessOnly(ok) == ok

\* the try/except sits inside `async with semaphore:`, whose exit releases
\* the slot however the body ended
ReleasesSlot(ok) == TRUE

\* item i leaves `async with semaphore:` with its result tuple;
\* Semaphore.release hands the slot to the oldest queued item, if any
TaskLeave(i, ok) ==
    LET done == [task[i] EXCEPT !.pc = "done", !.ok = ok,
                   !.path = IF ok THEN GeneratedPath(batch_items[i]) ELSE NoPath]
    IN IF ~ReleasesSlot(ok)
       THEN /\ task' = [task EXCEPT ![i] = done]
            /\ UNCHANGED << sem_value, sem_waiters >>
       ELSE IF sem_waiters # << >>
       THEN /\ task' = [task EXCEPT ![i] = done,
                                    ![Head(sem_waiters)].pc = "admitted"]
            /\ sem_waiters' = Tail(sem_waiters)
            /\ sem_value' = sem_value
       ELSE /\ task' = [task EXCEPT ![i] = done]
            /\ sem_waiters' = sem_waiters
            /\ sem_value' = sem_value + 1

\* the generation of an admitted item ends before any external process is
\* started: a cached background is returned, or FileNotFoundError is raised
\* and caught
TaskReturnsEarly(i) ==
    /\ batch_pc = "gather"
    /\ task[i].pc = "admitted"
    /\ \E ok \in BOOLEAN : TaskLeave(i, ok)
    /\ UNCHANGED << batch_items, batch_results, batch_pc, otherThanBatch >>

\* the generation of an admitted item starts its external process
TaskLaunch(i) ==
    /\ batch_pc = "gather"
    /\ task[i].pc = "admitted"
    /\ task' = [task EXCEPT ![i].pc = "generating"]
    /\ UNCHANGED << batch_items, sem_value, sem_waiters, batch_results,
                    batch_pc, otherThanBatch >>

\* the external process of item i ends; the generation returns a path or
\* raises, and the except branch turns that into (key, "")
TaskExit(i) ==
    /\ batch_pc = "gather"
    /\ task[i].pc = "generating"
    /\ \E ok \in BOOLEAN : TaskLeave(i, ok)
    /\ UNCHANGED << batch_items, batch_results, batch_pc, otherThanBatch >>

\* variant: the first item submitted for a key decides its entry
ResultsOfFirst(items, tasks) ==
    [k \in Range(items) |->
        LET first == CHOOSE i \in DOMAIN items :
                         /\ items[i] = k
                         /\ \A j \in DOMAIN items : items[j] = k => i <= j
        IN tasks[first].path]

\* the result loop: results[key] = path for every tuple, in submission order
ResultsOf(items, tasks) ==
    [k \in Range(items) |->
        LET last == CHOOSE i \in DOMAIN items :
                        /\ items[i] = k
                        /\ \A j \in DOMAIN items : items[j] = k => j <= i
        IN tasks[last].path]

\* gather() returns once every item is done; the results dict is built
BatchReturn ==
    /\ batch_pc = "gather"
    /\ \A i \in DOMAIN task : task[i].pc = "done"
    /\ batch_results' = ResultsOf(batch_items, task)
    /\ batch_pc' = "returned"
    /\ UNCHANGED << batch_items, task, sem_value, sem_waiters, otherThanBatch >>

NextBatch ==
    \/ \E i \in DOMAIN task : TaskEnter(i)
    \/ \E i \in DOMAIN task : TaskReturnsEarly(i)
    \/ \E i \in DOMAIN task : TaskLaunch(i)
    \/ \E i \in DOMAIN task : TaskExit(i)
    \/ BatchReturn

BatchSpec == InitBatch /\ [][NextBatch]_vars

\* every external process eventually ends and the event loop keeps running
\* the tasks that can run
FairBatchSpec == BatchSpec /\ WF_vars(NextBatch)

(* ------------------- cancellation of an awaited renderer --------------- *)
AwaitingRenderer ==
    pc \in {"compose_layers", "overlay_wait", "audio_wait",
            "concatenate_scenes", "export_wait"}

\* the renderer process, while it runs, creates its output file
RendererWrites ==
    /\ proc # NoProc
    /\ ~Exists(proc.out, fs)
    /\ fs' = fs \cup {proc.out}
    /\ UNCHANGED << calls, proc, pc, composeVars, concatVars, exportVars,
                    batchVars, writerVars, compositorVars, ttsVars >>

\* the caller is cancelled (or its timeout fires) while the operation awaits
\* process.communicate(): CancelledError is not an Exception, so no except
\* branch runs; nothing terminates the process or removes its output; only
\* the finally block of create_video_from_scenes runs and unlinks the list
CancelAwait ==
    /\ AwaitingRenderer
    /\ pc' = "cancelled"
    /\ fs' = unlink(scene_list_path, fs)
    /\ UNCHANGED << calls, proc, composeVars, concatVars, exportVars,
                    batchVars, writerVars, compositorVars, ttsVars >>

\* the abandoned process ends on its own
AbandonedRendererExit ==
    /\ pc = "cancelled"
    /\ proc # NoProc
    /\ \E wrote \in BOOLEAN : fs' = Written(fs, proc.out, wrote)
    /\ proc' = NoProc
    /\ UNCHANGED << calls, pc, composeVars, concatVars, exportVars,
                    batchVars, writerVars, compositorVars, ttsVars >>

NextCancel ==
    \/ NextConcat
    \/ RendererWrites
    \/ CancelAwait
    \/ AbandonedRendererExit

CancelSpec == InitConcat /\ [][NextCancel]_vars

(* ------------- output file names of concurrent invocations ------------ *)
SceneIds == {"s1", "s2"}
CacheKeys == {"k1", "k2"}
Prompts == {"p1", "p2"}
Neutral == "neutral"

\* the clock counts half seconds; strftime("%Y%m%d_%H%M%S") keeps the
\* whole seconds and drops the rest
strftime(now) == now \div 2

\* str(i) of a loop index inside an f-string
Digits == << "0", "1" >>
str(i) == Digits[i + 1]
VariantIndexes == 0 .. Len(Digits) - 1

\* f"bg_{cache_key}_{timestamp}.png"
BackgroundFilename(cache_key, ts) == << "bg", cache_key, ts >>
\* f"variant_{i}_{timestamp}.png": the prompt is not part of the name
VariantFilename(i, ts) == << "variant", str(i), ts >>
\* f"anim_{character.id}_{emotion.value}_{timestamp}.mp4"
AnimationFilename(character_id, emotion, ts) ==
    << "anim", character_id, emotion, ts >>

Writer(kind, id, index, path) ==
    [kind |-> kind, id |-> id, index |-> index, path |-> path, state |-> "running"]

otherThanWriters ==
    << calls, proc, pc, composeVars, concatVars, exportVars, batchVars,
       compositorVars, ttsVars >>

InitNaming ==
    /\ calls = << >> /\ proc = NoProc /\ pc = "writers" /\ fs = {}
    /\ background_path = NoPath /\ character_animations = << >>
    /\ audio_clips = << >> /\ script_lines = << >>
    /\ ComposeIdle /\ ConcatIdle /\ ExportIdle /\ BatchIdle /\ WritersIdle /\ CompositorIdle /\ TTSIdle

\* datetime.now() advances
Tick ==
    /\ clock < MaxClock
    /\ clock' = clock + 1
    /\ UNCHANGED << fs, writers, otherThanWriters >>

StartWriter(w) ==
    /\ Len(writers) < MaxWriters
    /\ writers' = Append(writers, w)
    /\ UNCHANGED << fs, clock, otherThanWriters >>

\* compose_scene up to its first await: the output name is chosen
StartComposeScene(id) ==
    /\ pc = "writers"
    /\ StartWriter(Writer("scene", id, 0, SceneFilename(id, strftime(clock))))

\* _get_cached_background: a finished generation whose file is on disk
Cached(cache_key) ==
    \E i \in DOMAIN writers :
        /\ writers[i].kind = "bg" /\ writers[i].id = cache_key
        /\ writers[i].state = "done" /\ Exists(writers[i].path, fs)

\* generate_scene_background up to its first await on the generator; a
\* cached background is returned without writing
StartGenerateBackground(cache_key) ==
    /\ ~Cached(cache_key)
    /\ StartWriter(Writer("bg", cache_key, 0,
                          BackgroundFilename(cache_key, strftime(clock))))

\* iteration i of get_background_variants(prompt): iterations of one
\* invocation follow each other
StartVariant(prompt, i) ==
    /\ \A k \in DOMAIN writers :
          ~(writers[k].kind = "variant" /\ writers[k].id = prompt
              /\ writers[k].index = i)
    /\ i > 0 => \E k \in DOMAIN writers :
          /\ writers[k].kind = "variant" /\ writers[k].id = prompt
          /\ writers[k].index = i - 1 /\ writers[k].state = "done"
    /\ StartWriter(Writer("variant", prompt, i,
                          VariantFilename(i, strftime(clock))))

\* animate_character_speech up to its first await
StartAnimate(character_id) ==
    /\ pc = "writers"
    /\ StartWriter(Writer("anim", character_id, 0,
                          AnimationFilename(character_id, Neutral, strftime(clock))))

\* the renderer or generator of invocation i ends
WriterFinish(i) ==
    /\ i \in DOMAIN writers
    /\ writers[i].state = "running"
    /\ writers' = [writers EXCEPT ![i].state = "done"]
    /\ \E wrote \in BOOLEAN : fs' = Written(fs, writers[i].path, wrote)
    /\ UNCHANGED << clock, otherThanWriters >>

NextNaming ==
    \/ Tick
    \/ \E id \in SceneIds : StartComposeScene(id)
    \/ \E k \in CacheKeys : StartGenerateBackground(k)
    \/ \E prompt \in Prompts, i \in VariantIndexes : StartVariant(prompt, i)
    \/ \E c \in Chars : StartAnimate(c)
    \/ \E i \in 1 .. MaxWriters : WriterFinish(i)

NamingSpec == InitNaming /\ [][NextNaming]_vars

(* ------------------ the overlay and audio timelines -------------------- *)
TimedLine == [content : Contents, character_name : Chars \cup {None},
              estimated_duration : LineDurations]

otherThanTimeline ==
    << calls, proc, background_path, character_animations, layers,
       scene_output_path, final_scene_path, stage_log, result,
       concatVars, exportVars, batchVars, writerVars >>

\* script lines with positive durations; clips provided for some characters,
\* on disk or not
InitTimeline ==
    /\ calls = << >> /\ proc = NoProc /\ pc = "add_dialogue_overlay"
    /\ background_path = NoPath /\ character_animations = << >>
    /\ \E keys \in SUBSET Chars :
         audio_clips = [c \in keys |-> WavPath(c)]
    /\ script_lines \in SeqsUpTo(TimedLine, MaxLines)
    /\ fs \in SUBSET { WavPath(c) : c \in Chars }
    /\ ComposeIdle /\ ConcatIdle /\ ExportIdle /\ BatchIdle /\ WritersIdle /\ CompositorIdle /\ TTSIdle

\* _add_dialogue_overlay up to the renderer launch: the filter list
BuildDialogueFilters ==
    /\ pc = "add_dialogue_overlay"
    /\ dialogue_filters' = DialogueFilters(script_lines)
    /\ pc' = "add_scene_audio"
    /\ UNCHANGED << fs, audio_clips, script_lines, audio_filters,
                    otherThanTimeline, compositorVars, ttsVars >>

\* _add_scene_audio up to the renderer launch: the delay list
BuildAudioFilters ==
    /\ pc = "add_scene_audio"
    /\ audio_filters' = AudioFilters(script_lines, audio_clips, fs)
    /\ audio_mix' = MixFilter(audio_filters')
    /\ pc' = "timelines_built"
    /\ UNCHANGED << fs, audio_clips, script_lines, dialogue_filters,
                    otherThanTimeline,
                    resolution, character_positions, filter_parts, ttsVars >>

NextTimeline == BuildDialogueFilters \/ BuildAudioFilters

TimelineSpec == InitTimeline /\ [][NextTimeline]_vars

\* ffmpeg's between(x, min, max): 1 if min <= x <= max
between(x, min, max) == min <= x /\ x <= max

\* enable='between(t,{start_time},{end_time})' of a drawtext filter
Enabled(filter, t) == between(t, filter.start, filter.end)

(* --------------------------- TTSEngineManager -------------------------- *)
\* TTSEngineType values, and a name that is no engine type
EngineTypes == {"chatts", "chatterbox"}
EngineNames == EngineTypes \cup {"espeak"}

otherThanTTS ==
    << fs, calls, proc, pc, composeVars, concatVars, exportVars, batchVars,
       writerVars, compositorVars >>

\* __init__ / _initialize_engines: the engines whose initialize() succeeded
\* are registered; the first of them, ChatTTS before Chatterbox, is current
InitTTS ==
    /\ calls = << >> /\ proc = NoProc /\ pc = "tts" /\ fs = {}
    /\ background_path = NoPath /\ character_animations = << >>
    /\ audio_clips = << >> /\ script_lines = << >>
    /\ ComposeIdle /\ ConcatIdle /\ ExportIdle /\ BatchIdle
    /\ WritersIdle /\ CompositorIdle
    /\ \E initialized \in SUBSET EngineTypes :
         /\ engines = [n \in initialized |-> TRUE]
         /\ current_engine = IF "chatts" \in initialized THEN "chatts"
                             ELSE IF "chatterbox" \in initialized THEN "chatterbox"
                             ELSE None
    /\ tts_log = << >>

TTSCall(op, arg, ret, registered, after) ==
    [op |-> op, arg |-> arg, ret |-> ret, registered |-> registered,
     before |-> current_engine, after |-> after]

\* variant: every name is taken for a registered engine
RegisteredAlways(engine_name, engs) == TRUE

\* `engine_name in self.engines`
Registered(engine_name, engs) == engine_name \in DOMAIN engs

set_current_engine(engine_name) ==
    /\ Len(tts_log) < MaxCalls
    /\ IF Registered(engine_name, engines)
       THEN /\ current_engine' = engine_name
            /\ tts_log' = Append(tts_log,
                  TTSCall("set_current_engine", engine_name, "True",
                          engine_name \in DOMAIN engines, engine_name))
       ELSE /\ current_engine' = current_engine
            /\ tts_log' = Append(tts_log,
                  TTSCall("set_current_engine", engine_name, "False",
                          engine_name \in DOMAIN engines, current_engine))
    /\ UNCHANGED << engines, otherThanTTS >>

\* the engine is cleaned up (unloaded) and stays registered
cleanup_engine(engine_name) ==
    /\ Len(tts_log) < MaxCalls
    /\ engines' = IF Registered(engine_name, engines)
                  THEN [engines EXCEPT ![engine_name] = FALSE]
                  ELSE engines
    /\ tts_log' = Append(tts_log,
          TTSCall("cleanup_engine", engine_name, "None",
                  engine_name \in DOMAIN engines, current_engine))
    /\ UNCHANGED << current_engine, otherThanTTS >>

\* every engine is cleaned up; self.engines.clear(); current_engine = None
cleanup_all ==
    /\ Len(tts_log) < MaxCalls
    /\ engines' = << >>
    /\ current_engine' = None
    /\ tts_log' = Append(tts_log,
          TTSCall("cleanup_all", None, "None", FALSE, None))
    /\ UNCHANGED otherThanTTS

\* generate_audio(text, voice, engine_name): (None, message) without a
\* target or for an unregistered one; otherwise the engine's own return,
\* an error for an unloaded engine
generate_audio(engine_name) ==
    /\ Len(tts_log) < MaxCalls
    /\ LET target_engine == IF engine_name # None THEN engine_name
                            ELSE current_engine
       IN \E ret \in {"audio", "error"} :
            /\ target_engine = None => ret = "error"
            /\ (target_engine # None /\ target_engine \notin DOMAIN engines)
                  => ret = "error"
            /\ (target_engine \in DOMAIN engines /\ ~engines[target_engine])
                  => ret = "error"
            /\ tts_log' = Append(tts_log,
                  TTSCall("generate_audio", engine_name, ret,
                          target_engine \in DOMAIN engines, current_engine))
    /\ UNCHANGED << engines, current_engine, otherThanTTS >>

NextTTS ==
    \/ \E n \in EngineNames : set_current_engine(n)
    \/ \E n \in EngineNames : cleanup_engine(n)
    \/ cleanup_all
    \/ \E n \in EngineNames \cup {None} : generate_audio(n)

TTSSpec == InitTTS /\ [][NextTTS]_vars

(* ----------------------- compose_scene: properties --------------------- *)
Events(stage, ev) ==
    { i \in DOMAIN stage_log : stage_log[i].stage = stage /\ stage_log[i].ev = ev }

\* a renderer invocation failed: launch exception, non-success exit status,
\* or no output file
RendererFailed(e) == ~e.launched \/ e.returncode # 0 \/ ~e.out_exists

Invoked(stage) == \E i \in DOMAIN calls : calls[i].stage = stage

\* C1: within one compose_scene call the stages run in the order compositor,
\* dialogue overlay, audio mixer: the overlay starts only after the
\* compositor has finished and its output file exists, the audio stage only
\* after the overlay has finished and its own input file exists.
C1_StageOrder ==
    /\ \A i \in Events("compose", "finish") :
          \E j \in Events("compose", "start") : j < i
    /\ \A i \in Events("overlay", "start") :
          /\ \E j \in Events("compose", "finish") : j < i
          /\ stage_log[i].input_exists
          /\ Exists(scene_output_path, fs)
    /\ \A i \in Events("audio", "start") :
          /\ \E j \in Events("overlay", "finish") : j < i
          /\ stage_log[i].input_exists
    /\ proc.stage \in {"overlay", "audio"} => Exists(proc.input, fs)
    /\ \A i, j \in DOMAIN calls :
          i < j => << calls[i].stage, calls[j].stage >> \in
                      { <<"compose", "overlay">>, <<"compose", "audio">>,
                        <<"overlay", "audio">> }

C1_Witness ==
    /\ pc = "returned"
    /\ Len(calls) = 3
    /\ calls[3].stage = "audio"
    /\ calls[3].input = DialogueFilename(scene_output_path)

\* C2: when the compositor's renderer invocation fails, compose_scene ends
\* with an error, returns no VideoClip, and neither the overlay stage nor
\* the audio stage invokes the renderer.
C2_CompositorFailureFatal ==
    \A i \in Events("compose", "finish") :
        RendererFailed(stage_log[i]) =>
            /\ pc = "raised"
            /\ result = NoClip
            /\ ~Invoked("overlay") /\ ~Invoked("audio")

C2_Witness ==
    /\ pc = "raised"
    /\ \E i \in Events("compose", "finish") :
          stage_log[i].launched /\ stage_log[i].returncode # 0
          /\ stage_log[i].out_exists

\* C3: when the background file does not exist, compose_scene raises before
\* any renderer subprocess is invoked (zero renderer invocations).
C3_MissingBackgroundNoInvocation ==
    ~Exists(background_path, fs) =>
        /\ Len(calls) = 0
        /\ pc \in {"compose_scene", "raised"}

InvalidDialogue(lines) ==
    lines = << >> \/ \E k \in DOMAIN lines : lines[k].estimated_duration <= 0

RendererOutputs ==
    { p \in fs : Head(p) \in {"scene", "dialogue", "audio"} }

\* C4: an empty dialogue-line sequence, or one with a line of estimated
\* duration <= 0, is rejected before any renderer invocation and before any
\* output file is produced.
C4_InvalidDialogueFailFast ==
    InvalidDialogue(script_lines) =>
        /\ Len(calls) = 0
        /\ RendererOutputs = {}
        /\ pc \in {"compose_scene", "raised"}

\* C5: the overlay stage is best-effort: however its renderer invocation
\* fails it returns its input path, compose_scene does not raise, and when
\* no audio stage replaces it the VideoClip's path is the compositor's output.
C5_OverlayBestEffort ==
    \A i \in Events("overlay", "finish") :
        RendererFailed(stage_log[i]) =>
            /\ pc # "raised"
            /\ pc \in {"add_scene_audio", "audio_wait"} =>
                  final_scene_path = scene_output_path
            /\ pc = "returned" =>
                  /\ result # NoClip
                  /\ (\A j \in Events("audio", "finish") :
                         RendererFailed(stage_log[j]))
                     => result.path = scene_output_path

C5_Witness ==
    /\ pc = "returned"
    /\ Events("audio", "start") = {}
    /\ result.path = scene_output_path
    /\ \E i \in Events("overlay", "finish") :
          stage_log[i].launched /\ stage_log[i].returncode = 0
          /\ ~stage_log[i].out_exists

\* what the overlay stage handed on, from what its renderer did
OverlayReturned ==
    IF \E i \in Events("overlay", "finish") : ~RendererFailed(stage_log[i])
    THEN DialogueFilename(scene_output_path)
    ELSE scene_output_path

\* C6: the audio stage is best-effort: however its renderer invocation fails
\* it returns the video path it was given (the overlay's output or the
\* pre-overlay composite), and compose_scene returns instead of raising.
C6_AudioBestEffort ==
    \A i \in Events("audio", "finish") :
        (stage_log[i].invoked /\ RendererFailed(stage_log[i])) =>
            /\ pc = "returned"
            /\ result # NoClip
            /\ result.path = OverlayReturned
            /\ Exists(result.path, fs)

C6_Witness ==
    /\ pc = "returned"
    /\ result.path = DialogueFilename(scene_output_path)
    /\ \E i \in Events("audio", "finish") :
          stage_log[i].launched /\ stage_log[i].returncode # 0
          /\ stage_log[i].out_exists

\* a character whose clip path is empty or not on disk
MissingClip(c) ==
    /\ c \in DOMAIN character_animations
    /\ \/ character_animations[c] = NoPath
       \/ ~Exists(character_animations[c], fs)

Count(seq, P(_)) == Cardinality({ i \in DOMAIN seq : P(seq[i]) })

\* C7: a character whose clip path is empty or not on disk contributes no
\* layer, composition still succeeds when the renderer does, and the
\* character's dialogue text and dialogue audio are produced all the same.
C7_MissingClipOmitted ==
    \A c \in Chars : MissingClip(c) =>
        /\ \A k \in DOMAIN layers :
              layers[k].type = "character" =>
                  /\ layers[k].content_path # character_animations[c]
                  /\ Exists(layers[k].content_path, fs)
        /\ (\E i \in Events("compose", "finish") : ~RendererFailed(stage_log[i]))
              => pc # "raised"
        /\ pc = "returned" => result # NoClip
        /\ Invoked("overlay") =>
              /\ \A k \in DOMAIN script_lines :
                    (script_lines[k].character_name = c
                       /\ script_lines[k].content # " ") =>
                        /\ \E f \in Range(dialogue_filters) :
                              f.op = "text" /\ f.text = script_lines[k].content
                        /\ \E f \in Range(dialogue_filters) :
                              f.op = "name" /\ f.text = c
              /\ Count(dialogue_filters, LAMBDA f : f.op = "text")
                    = Count(script_lines, LAMBDA l : l.content # " ")
        /\ Events("audio", "start") # {} =>
              \A k \in DOMAIN script_lines :
                  (/\ script_lines[k].character_name = c
                   /\ c \in DOMAIN audio_clips
                   /\ Exists(audio_clips[c], fs)) =>
                      \E f \in Range(audio_filters) :
                          f.label = k - 1 /\ f.file = audio_clips[c]

C7_Witness ==
    /\ pc = "returned"
    /\ \E c \in Chars :
          /\ MissingClip(c)
          /\ character_animations[c] # NoPath
          /\ Len(layers) = 1
          /\ \E k \in DOMAIN script_lines :
                script_lines[k].character_name = c /\ script_lines[k].content # " "
          /\ \E f \in Range(dialogue_filters) : f.op = "name" /\ f.text = c
          /\ \E f \in Range(audio_filters) : f.file = audio_clips[c]
          /\ result.path = AudioFilename(DialogueFilename(scene_output_path))

(* ----------------- create_video_from_scenes: properties ---------------- *)
\* sum of the VideoClip durations of the input scenes
RECURSIVE SumDurations(_)
SumDurations(clips) ==
    IF clips = << >> THEN 0
    ELSE Head(clips).duration + SumDurations(Tail(clips))

\* C9: concatenation failure is fatal under both strategies: an empty scene
\* list raises before any renderer invocation, and a renderer failure raises
\* and no output path is returned.
C9_ConcatFailureFatal ==
    /\ scenes = << >> =>
          /\ calls = << >>
          /\ pc \in {"create_video_from_scenes", "concat_raised"}
          /\ final_path = NoReturn
    /\ \A i \in Events("concat", "finish") :
          RendererFailed(stage_log[i]) =>
              pc = "concat_raised" /\ final_path = NoReturn
    /\ pc = "concat_returned" =>
          /\ final_path = Str(FinalOutputPath)
          /\ Exists(FinalOutputPath, fs)

C9_Witness ==
    /\ pc = "concat_raised"
    /\ include_transitions
    /\ \E i \in Events("concat", "finish") :
          stage_log[i].launched /\ stage_log[i].returncode = 0
          /\ ~stage_log[i].out_exists

RequestedPairs ==
    { <<export_formats[i], quality_presets[j]>> :
        i \in DOMAIN export_formats,
        j \in { k \in DOMAIN quality_presets :
                  quality_presets[k] \in KnownQualities } }

AttemptsOf(pair) ==
    { i \in DOMAIN attempted :
        attempted[i].fmt = pair[1] /\ attempted[i].quality = pair[2] }

PairSucceeded(pair) ==
    \E i \in AttemptsOf(pair) :
        /\ attempted[i].launched
        /\ attempted[i].returncode = 0
        /\ attempted[i].out_exists

\* C8: export pairs are independent: whatever pairs fail, every requested
\* pair is attempted, the result holds the output path of exactly the pairs
\* that succeeded (exit status 0 and file present), and the call returns.
C8_ExportPairsIndependent ==
    /\ attempted # << >> => pc # "export_raised"
    /\ pc = "export_returned" =>
          /\ \A pair \in RequestedPairs : Cardinality(AttemptsOf(pair)) = 1
          /\ Len(attempted) = Cardinality(RequestedPairs)
          /\ DOMAIN export_results = Range(export_formats)
          /\ \A pair \in RequestedPairs :
                PairSucceeded(pair) <=>
                    ExportPath(video_path, pair[2], pair[1])
                        \in Range(export_results[pair[1]])
          /\ \A f \in DOMAIN export_results :
                \A p \in Range(export_results[f]) :
                    \E pair \in RequestedPairs :
                        /\ pair[1] = f
                        /\ p = ExportPath(video_path, pair[2], f)
                        /\ PairSucceeded(pair)

C8_Witness ==
    /\ pc = "export_returned"
    /\ Len(attempted) = 4
    /\ ~attempted[1].launched
    /\ attempted[2].launched /\ attempted[2].returncode # 0
    /\ attempted[3].launched /\ attempted[3].returncode = 0
    /\ ~attempted[3].out_exists
    /\ PairSucceeded(<<attempted[4].fmt, attempted[4].quality>>)
    /\ Len(export_results[attempted[4].fmt]) = 1

\* x264 presets from slowest to fastest encoder
PresetSpeed == [slow |-> 1, medium |-> 2, fast |-> 3]

\* C20: the encode parameters of an export depend only on the quality name
\* through a fixed table: high = (crf 18, preset slow), medium = (crf 23,
\* preset medium), low = (crf 28, preset fast); fidelity strictly decreases
\* (crf grows) and encoder speed strictly increases from high to low, and
\* the same (format, quality) always selects identical parameters.
C20_QualityTable ==
    /\ \A i \in DOMAIN attempted :
          LET a == attempted[i] IN
          /\ a.quality = "high" => (a.crf = 18 /\ a.preset = "slow")
          /\ a.quality = "medium" => (a.crf = 23 /\ a.preset = "medium")
          /\ a.quality = "low" => (a.crf = 28 /\ a.preset = "fast")
    /\ \A i, j \in DOMAIN attempted :
          attempted[i].quality = attempted[j].quality =>
              /\ attempted[i].crf = attempted[j].crf
              /\ attempted[i].preset = attempted[j].preset
    /\ \A i, j \in DOMAIN attempted :
          LET a == attempted[i]
              b == attempted[j]
          IN (<<a.quality, b.quality>> \in
                  {<<"high", "medium">>, <<"medium", "low">>, <<"high", "low">>}) =>
                 /\ a.crf < b.crf
                 /\ PresetSpeed[a.preset] < PresetSpeed[b.preset]

C20_Witness ==
    /\ pc = "export_returned"
    /\ Len(attempted) = 4
    /\ attempted[1].quality = "high" /\ attempted[2].quality = "low"
    /\ attempted[3].quality = "high" /\ attempted[3].fmt # attempted[1].fmt
    /\ attempted[3].crf = attempted[1].crf
    /\ attempted[2].crf > attempted[1].crf

(* --------------------- batch operations: properties -------------------- *)
\* C11: in a batch operation the number of items inside their generation
\* step at the same time never exceeds the admission limit, 2.
C11_AdmissionLimit ==
    /\ Cardinality(Holding) <= 2
    /\ Cardinality({ i \in DOMAIN task : task[i].pc = "generating" }) <= 2
    /\ sem_value >= 0
    /\ sem_value + Cardinality(Holding) = 2

C11_Witness ==
    /\ Len(batch_items) = 3
    /\ Cardinality({ i \in DOMAIN task : task[i].pc = "generating" }) = 2
    /\ \E i \in DOMAIN task : task[i].pc = "waiting"

\* C12: if every external process eventually ends, every submitted item is
\* eventually admitted and completes, the slots are all free again whether
\* the items succeeded or failed, and the batch call eventually returns.
C12_BatchCompletes ==
    /\ <>(batch_pc = "returned")
    /\ \A i \in 1 .. MaxItems :
          (i \in DOMAIN task /\ task[i].pc = "waiting")
              ~> (i \in DOMAIN task /\ task[i].pc = "done")
    /\ [](batch_pc = "returned" =>
            /\ \A i \in DOMAIN task : task[i].pc = "done"
            /\ sem_value = SemaphoreSize
            /\ sem_waiters = << >>)

C12_Witness ==
    /\ batch_pc = "returned"
    /\ Len(batch_items) = 3
    /\ task[3].waited
    /\ ~task[1].ok
    /\ task[3].ok

(* ------------------------ cancellation: properties --------------------- *)
\* C13: when the caller is cancelled while a renderer subprocess is still
\* running, that subprocess is terminated and the partial output file it
\* was writing is removed.
C13_CancelTerminatesRenderer ==
    pc = "cancelled" =>
        /\ proc = NoProc
        /\ \A i \in DOMAIN calls : ~Exists(calls[i].out, fs)

(* ------------------------ output names: properties --------------------- *)
Running == { i \in DOMAIN writers : writers[i].state = "running" }

\* C14: any two invocations that run concurrently and write an output file
\* into the shared working directory choose different output paths, also
\* when they are for the same scene, character or prompt and start within
\* the same clock second.
C14_WritersNeverCollide ==
    \A i, j \in Running : i # j => writers[i].path # writers[j].path

(* -------------------------- timelines: properties ---------------------- *)
TimelinesBuilt == pc = "timelines_built"

IsText(filter) == filter.op = "text"
TextFilters == SelectSeq(dialogue_filters, IsText)

\* lines whose content is not empty or whitespace-only
NonBlank == { k \in DOMAIN script_lines : Strip(script_lines[k].content) # "" }

\* the drawtext filter of non-blank line k: filters follow the line order
Window(k) == TextFilters[Cardinality({ j \in NonBlank : j <= k })]

\* sum of the durations of the lines before line k
Offset(k) == scene_duration(SubSeq(script_lines, 1, k - 1))

\* lines whose character has a provided clip that is on disk
HasTrack ==
    { k \in DOMAIN script_lines :
        /\ script_lines[k].character_name \in DOMAIN audio_clips
        /\ Exists(audio_clips[script_lines[k].character_name], fs) }

\* C15: line i's window is [sum of d_j for j<i, that sum + d_i):
\* consecutive windows are contiguous, offsets strictly increase, and the
\* last window's end equals the total scene duration, the sum of all d_i.
C15_WindowsPartitionScene ==
    TimelinesBuilt =>
        /\ \A k \in NonBlank :
              /\ Window(k).start = Offset(k)
              /\ Window(k).end = Offset(k) + script_lines[k].estimated_duration
        /\ \A k \in NonBlank : (k + 1) \in NonBlank =>
              /\ Window(k).end = Window(k + 1).start
              /\ Window(k).start < Window(k + 1).start
        /\ Len(script_lines) \in NonBlank =>
              Window(Len(script_lines)).end = scene_duration(script_lines)

\* C16: lines with empty or whitespace-only content get no overlay text but
\* still consume their duration: the overlay window of every later line
\* starts at the sum of the durations of all preceding lines, empty ones
\* included.
C16_BlankLinesConsumeDuration ==
    TimelinesBuilt =>
        /\ Len(TextFilters) = Cardinality(NonBlank)
        /\ \A j \in DOMAIN TextFilters : Strip(TextFilters[j].text) # ""
        /\ \A k \in NonBlank :
              (\E j \in 1 .. k - 1 : j \notin NonBlank) =>
                  Window(k).start = Offset(k)

\* the mixer has one track per line with a clip, in line order, and none for
\* the other lines
TracksOfLinesWithClips ==
    /\ Len(audio_filters) = Cardinality(HasTrack)
    /\ \A j \in DOMAIN audio_filters :
          /\ (audio_filters[j].label + 1) \in HasTrack
          /\ audio_filters[j].input = audio_filters[j].label + 1
          /\ audio_filters[j].file =
                audio_clips[script_lines[audio_filters[j].label + 1].character_name]
          /\ \A h \in 1 .. j - 1 : audio_filters[h].label < audio_filters[j].label

\* C17 as stated: each line with a provided, existing clip gets a delay in
\* milliseconds equal to 1000 x the sum of the durations of all preceding
\* lines; lines without a matching clip add no track.
C17_DelayIsThousandTimesOffset ==
    TimelinesBuilt =>
        /\ TracksOfLinesWithClips
        /\ \A j \in DOMAIN audio_filters :
              audio_filters[j].delay * TicksPerSecond
                  = 1000 * Offset(audio_filters[j].label + 1)

\* C17 amended: the delay is 1000 x the sum of the durations of all preceding
\* lines (lines without audio included) truncated to whole milliseconds, and
\* equal to it when that product is a whole number; lines without a matching
\* clip add no track.
C17_DelayIsTruncatedOffset ==
    TimelinesBuilt =>
        /\ TracksOfLinesWithClips
        /\ \A j \in DOMAIN audio_filters :
              LET ms == 1000 * Offset(audio_filters[j].label + 1)
                  delay == audio_filters[j].delay
              IN /\ delay * TicksPerSecond <= ms
                 /\ ms < (delay + 1) * TicksPerSecond
                 /\ ms % TicksPerSecond = 0 => delay * TicksPerSecond = ms

C17_Witness ==
    /\ TimelinesBuilt
    /\ Len(script_lines) = 2 /\ Len(audio_filters) = 1
    /\ script_lines[1].character_name = None
    /\ audio_filters[1].label = 1
    /\ audio_filters[1].delay * TicksPerSecond < 1000 * Offset(2)

\* C18: for every line that has both overlay text and an audio track, the
\* audio delay in milliseconds equals 1000 x the start of that line's overlay
\* window.
C18_AudioAlignedWithOverlay ==
    TimelinesBuilt =>
        \A j \in DOMAIN audio_filters :
            (audio_filters[j].label + 1) \in NonBlank =>
                audio_filters[j].delay * TicksPerSecond
                    = 1000 * Window(audio_filters[j].label + 1).start

\* the time instants of the scene
Instants == 0 .. scene_duration(script_lines)

\* C19: each line's name label and text are enabled only during that line's
\* half-open window [start, end): at every instant of the scene at most one
\* line's text is enabled and no text is enabled outside its own window.
C19_OneTextAtATime ==
    TimelinesBuilt =>
        \A t \in Instants :
            /\ Cardinality({ j \in DOMAIN TextFilters :
                               Enabled(TextFilters[j], t) }) <= 1
            /\ \A j \in DOMAIN dialogue_filters :
                  LET f == dialogue_filters[j] IN
                  (f.op \in {"name", "text"} /\ Enabled(f, t)) =>
                      (f.start <= t /\ t < f.end)

(* ----------------------- degradation: properties ----------------------- *)
\* C21: every time the overlay stage or the audio stage passes its input
\* through because the renderer failed (launch exception, non-zero exit
\* status or missing output file), a warning is emitted.
C21_DegradationWarned ==
    \A i \in Events("overlay", "finish") \cup Events("audio", "finish") :
        (stage_log[i].invoked /\ RendererFailed(stage_log[i])) =>
            stage_log[i].printed

(* ------------------------ compositor: properties ----------------------- *)
LayersBuilt == pc # "compose_scene" /\ layers # << >>

LayersOfType(type) == { k \in DOMAIN layers : layers[k].type = type }

\* C22: the layer list handed to the compositor contains exactly one
\* background layer, with z-index 0 and duration equal to the total scene
\* duration; every character layer has a higher z-index, so after sorting by
\* z-index ascending the background is first, however many character layers
\* there are.
C22_OneBackgroundFirst ==
    LayersBuilt =>
        /\ Cardinality(LayersOfType("background")) = 1
        /\ \A k \in LayersOfType("background") :
              /\ layers[k].z_index = 0
              /\ layers[k].duration = scene_duration(script_lines)
              /\ \A c \in LayersOfType("character") :
                    layers[c].z_index > layers[k].z_index
        /\ SortedLayers(layers)[1].type = "background"
        /\ filter_parts[1].op = "scale" /\ filter_parts[1].top = InputLabel(0)

C22_Witness ==
    /\ LayersBuilt
    /\ Cardinality(LayersOfType("character")) = 2
    /\ scene_duration(script_lines) > TicksPerSecond

\* C23: for k >= 0 present character layers the compositor invokes the
\* renderer exactly once; the overlay operations follow the sorted layer
\* order and each character is painted on top of the result of the previous
\* overlay (the first on the scaled background).
C23_CharactersChained ==
    LayersBuilt =>
        /\ Cardinality({ i \in DOMAIN calls : calls[i].stage = "compose" }) = 1
        /\ Len(filter_parts) = Len(layers)
        /\ \A j \in DOMAIN filter_parts :
              /\ filter_parts[j].top = InputLabel(j - 1)
              /\ j > 1 =>
                    /\ filter_parts[j].op = "overlay"
                    /\ filter_parts[j].base = filter_parts[j - 1].out

\* C24: a character layer's pixel position comes from its logical position
\* by a table keyed to the target resolution: at 1080p left = (200,150),
\* center = (760,150), right = (1320,150), an unknown logical position
\* resolves to center, and for every supported resolution the position lies
\* inside that resolution's frame.
C24_PositionsInsideFrame ==
    LayersBuilt =>
        /\ \A c \in DOMAIN character_animations :
              LET path == character_animations[c]
                  logical == character_positions[c]
                  expected == IF logical = "left" THEN << 200, 150 >>
                              ELSE IF logical = "right" THEN << 1320, 150 >>
                              ELSE << 760, 150 >>
              IN (path # NoPath /\ Exists(path, fs) /\ resolution = "1080p") =>
                     \E k \in LayersOfType("character") :
                         /\ layers[k].content_path = path
                         /\ layers[k].position = expected
        /\ resolution \in DOMAIN video_settings =>
              \A k \in LayersOfType("character") :
                  /\ 0 <= layers[k].position[1]
                  /\ layers[k].position[1] < video_settings[resolution].width
                  /\ 0 <= layers[k].position[2]
                  /\ layers[k].position[2] < video_settings[resolution].height

(* ------------------------ audio mixer: properties ---------------------- *)
\* C25: the mixer's operation list is well-formed: each delay operation
\* reads the audio input that was added for its own line (input number =
\* 1 + the count of audio inputs added before it), the labels consumed by the
\* final mix are exactly the labels produced by the delay operations, and the
\* mix's input count is the number of delayed tracks plus one.
C25_MixerWellFormed ==
    (TimelinesBuilt /\ audio_filters # << >>) =>
        /\ \A j \in DOMAIN audio_filters : audio_filters[j].input = j
        /\ Range(audio_mix.labels) = { audio_filters[j].label : j \in DOMAIN audio_filters }
        /\ audio_mix.inputs = Len(audio_filters) + 1

(* ----------------------- batch results: properties --------------------- *)
BatchReturned == batch_pc = "returned"

\* items submitted after item i with the same key
LaterSameKey(i) ==
    { j \in DOMAIN batch_items : j > i /\ batch_items[j] = batch_items[i] }

\* C26 as stated: a failed item is reported with an empty path, every other
\* item maps to the path of its own generation, and the result has exactly
\* one entry per distinct submitted key.
C26_EveryItemReported ==
    BatchReturned =>
        /\ DOMAIN batch_results = Range(batch_items)
        /\ \A i \in DOMAIN batch_items :
              batch_results[batch_items[i]] =
                  IF task[i].ok THEN task[i].path ELSE NoPath

\* C26 amended: the batch returns whatever items failed, with exactly one
\* entry per distinct submitted key; the entry of a key is the outcome of the
\* last item submitted with that key, the empty path if that item failed and
\* the path of its generation otherwise; when all keys are distinct every
\* item is reported that way.
C26_LastItemOfKeyReported ==
    BatchReturned =>
        /\ DOMAIN batch_results = Range(batch_items)
        /\ \A i \in DOMAIN batch_items :
              (LaterSameKey(i) = {}) =>
                  batch_results[batch_items[i]] =
                      IF task[i].ok THEN task[i].path ELSE NoPath
        /\ \A i \in DOMAIN batch_items :
              task[i].pc = "done" /\ (task[i].ok <=> task[i].path # NoPath)

C26_Witness ==
    /\ BatchReturned
    /\ Len(batch_items) = 3
    /\ batch_items[1] = batch_items[3] /\ batch_items[2] # batch_items[1]
    /\ task[1].ok /\ task[2].ok /\ ~task[3].ok
    /\ batch_results[batch_items[1]] = NoPath
    /\ batch_results[batch_items[2]] = task[2].path

(* ------------------------- list file: properties ----------------------- *)
ConcatEnded == pc \in {"concat_returned", "concat_raised"}

\* C27: the temporary scene-list file that create_video_from_scenes writes
\* holds one entry per input scene, in input order, and is removed on every
\* exit path: after the call has returned a path or raised, under either
\* strategy, the file no longer exists.
C27_ListFileRemoved ==
    /\ pc = "concatenate_scenes" =>
          /\ scene_list_path # NoPath /\ Exists(scene_list_path, fs)
          /\ Len(scene_list) = Len(scenes)
          /\ \A i \in DOMAIN scenes : scene_list[i] = scenes[i].path
    /\ ConcatEnded =>
          /\ ~Exists(TempListPath, fs)
          /\ scene_list_path # NoPath => ~Exists(scene_list_path, fs)

C27_Witness ==
    /\ pc = "concat_raised"
    /\ include_transitions
    /\ Len(scenes) = 2 /\ Len(scene_list) = 2
    /\ scene_list_path = TempListPath
    /\ \E i \in Events("concat", "finish") :
          stage_log[i].launched /\ stage_log[i].returncode = 0
          /\ ~stage_log[i].out_exists

(* ------------------------ nothing to mix: properties ------------------- *)
\* C28: the audio stage does nothing when it has nothing to mix:
\* compose_scene skips it when the audio-clip mapping is empty, and when no
\* line has a non-null character name with an existing clip file the mixer
\* invokes no renderer and returns its input video path unchanged.
C28_NothingToMix ==
    /\ audio_clips = << >> =>
          /\ Events("audio", "start") = {} /\ Events("audio", "finish") = {}
          /\ ~Invoked("audio")
          /\ pc = "returned" => result.path = OverlayReturned
    /\ (audio_clips # << >> /\ HasTrack = {}) =>
          /\ ~Invoked("audio")
          /\ \A i \in Events("audio", "finish") : ~stage_log[i].invoked
          /\ pc = "returned" =>
                /\ Events("audio", "finish") # {}
                /\ result.path = OverlayReturned

C28_Witness ==
    /\ pc = "returned"
    /\ audio_clips # << >> /\ HasTrack = {}
    /\ \E k \in DOMAIN script_lines :
          script_lines[k].character_name \in DOMAIN audio_clips
    /\ result.path = DialogueFilename(scene_output_path)

(* ------------------------ export result: properties -------------------- *)
\* the list is made of the outputs of known requested qualities for the
\* format, each at most once and in request order
InRequestOrder(paths, fmt) ==
    \E at \in [DOMAIN paths -> DOMAIN quality_presets] :
        /\ \A k \in DOMAIN paths :
              /\ quality_presets[at[k]] \in {"high", "medium", "low"}
              /\ paths[k] = <<"export">> \o video_path
                                \o << quality_presets[at[k]], fmt >>
        /\ \A k, m \in DOMAIN paths : k < m => at[k] < at[m]

\* C29: export_video raises for a missing input file before any renderer
\* invocation; a requested quality outside {high, medium, low} causes no
\* renderer invocation and no result entry; the result has exactly one key
\* per requested format, whose list holds at most one path per requested
\* known quality, in request order.
C29_ExportResultShape ==
    /\ pc = "export_raised" =>
          /\ ~Exists(video_path, fs)
          /\ calls = << >> /\ attempted = << >> /\ export_results = << >>
    /\ ~Exists(video_path, fs) => pc \in {"export_video", "export_raised"}
    /\ \A i \in DOMAIN attempted :
          attempted[i].quality \in {"high", "medium", "low"}
    /\ \A i \in DOMAIN calls :
          \E q \in {"high", "medium", "low"}, fmt \in Range(export_formats) :
              calls[i].out = <<"export">> \o video_path \o << q, fmt >>
    /\ \A fmt \in DOMAIN export_results : InRequestOrder(export_results[fmt], fmt)
    /\ pc = "export_returned" => DOMAIN export_results = Range(export_formats)

C29_Witness ==
    /\ pc = "export_returned"
    /\ Len(export_formats) = 2
    /\ quality_presets = << "ultra", "low" >>
    /\ Len(attempted) = 2
    /\ Len(export_results[export_formats[1]]) = 1
    /\ export_results[export_formats[2]] = << >>

(* --------------------- TTSEngineManager: properties -------------------- *)
\* C30: after any sequence of set_current_engine, cleanup_engine and
\* cleanup_all calls, current_engine is None or the name of a registered
\* engine; set_current_engine for an unregistered name returns False and
\* leaves current_engine unchanged; after cleanup_all there are no engines
\* and current_engine is None, so audio generation returns an error value.
C30_CurrentEngineRegistered ==
    /\ current_engine = None \/ current_engine \in DOMAIN engines
    /\ \A i \in DOMAIN tts_log :
          (tts_log[i].op = "set_current_engine" /\ ~tts_log[i].registered) =>
              /\ tts_log[i].ret = "False"
              /\ tts_log[i].after = tts_log[i].before
    /\ \A i \in DOMAIN tts_log :
          tts_log[i].op = "cleanup_all" =>
              /\ tts_log[i].after = None
              /\ i = Len(tts_log) => (engines = << >> /\ current_engine = None)
              /\ \A j \in DOMAIN tts_log :
                    (j > i /\ tts_log[j].op = "generate_audio") =>
                        tts_log[j].ret = "error"

C30_Witness ==
    /\ Len(tts_log) = 3
    /\ tts_log[1].op = "set_current_engine" /\ tts_log[1].arg = "espeak"
    /\ tts_log[1].before = "chatts" /\ tts_log[1].ret = "False"
    /\ tts_log[2].op = "cleanup_all"
    /\ tts_log[3].op = "generate_audio" /\ tts_log[3].ret = "error"
    /\ current_engine = None

====
